---- MODULE Spec2Model ----
(***************************************************************************)
(* Model of logchecklint: the rule predicates (pkg/analyzer/rules.go), the *)
(* call-site extractor and the diagnostic orchestrator                     *)
(* (pkg/analyzer/analyzer.go).                                             *)
(*                                                                         *)
(* A Go string is a sequence of bytes (0..255).  `for _, r := range s`     *)
(* decodes UTF-8, so the decoder and the encoder are modelled, as are the  *)
(* unicode and strings functions the code calls.                           *)
(***************************************************************************)
EXTENDS Integers, Sequences, FiniteSets, TLC

VARIABLES cfg, entry, call, msg, pos, diags, fn, res

vars == <<cfg, entry, call, msg, pos, diags, fn, res>>

(***************************************************************************)
(* Bounds of the model.                                                    *)
(***************************************************************************)
\* longest message built byte by byte from Alphabet
MaxLen == 3
\* most vocabulary words concatenated into one message
MaxWords == 2
\* most arguments of a call expression
MaxArgs == 3

(***************************************************************************)
(* unicode/utf8                                                            *)
(***************************************************************************)
RuneError == 65533

IsCont(b) == b >= 128 /\ b <= 191

\* utf8.DecodeRuneInString(s[i:]), i is 1-based and i <= Len(s)
DecodeRuneInString(s, i) ==
    LET n   == Len(s) - i + 1
        b0  == s[i]
        bad == [r |-> RuneError, size |-> 1]
        lo  == IF b0 = 224 THEN 160 ELSE IF b0 = 240 THEN 144 ELSE 128
        hi  == IF b0 = 237 THEN 159 ELSE IF b0 = 244 THEN 143 ELSE 191
    IN  IF b0 < 128 THEN [r |-> b0, size |-> 1]
        ELSE IF b0 >= 194 /\ b0 <= 223 THEN
            IF n >= 2 /\ IsCont(s[i+1])
            THEN [r |-> (b0 % 32) * 64 + (s[i+1] % 64), size |-> 2]
            ELSE bad
        ELSE IF b0 >= 224 /\ b0 <= 239 THEN
            IF n >= 3 /\ s[i+1] >= lo /\ s[i+1] <= hi /\ IsCont(s[i+2])
            THEN [r |-> (b0 % 16) * 4096 + (s[i+1] % 64) * 64 + (s[i+2] % 64),
                  size |-> 3]
            ELSE bad
        ELSE IF b0 >= 240 /\ b0 <= 244 THEN
            IF n >= 4 /\ s[i+1] >= lo /\ s[i+1] <= hi /\ IsCont(s[i+2])
                      /\ IsCont(s[i+3])
            THEN [r |-> (b0 % 8) * 262144 + (s[i+1] % 64) * 4096
                        + (s[i+2] % 64) * 64 + (s[i+3] % 64),
                  size |-> 4]
            ELSE bad
        ELSE bad

\* utf8.DecodeLastRuneInString(s[:e]), e >= 1: the rune that ends at byte e
DecodeLastRuneInString(s, e) ==
    LET lim   == IF e - 3 > 1 THEN e - 3 ELSE 1
        start == IF e - 1 >= lim /\ ~IsCont(s[e-1]) THEN e - 1
                 ELSE IF e - 2 >= lim /\ ~IsCont(s[e-2]) THEN e - 2
                 ELSE IF e - 3 >= lim /\ ~IsCont(s[e-3]) THEN e - 3
                 ELSE IF lim - 1 < 1 THEN 1 ELSE lim - 1
        d     == DecodeRuneInString(SubSeq(s, 1, e), start)
    IN  IF s[e] < 128 THEN [r |-> s[e], size |-> 1]
        ELSE IF start + d.size # e + 1 THEN [r |-> RuneError, size |-> 1]
        ELSE d

\* the runes `for _, r := range s` yields from byte i on
RECURSIVE RangeFrom(_, _)
RangeFrom(s, i) ==
    IF i > Len(s) THEN <<>>
    ELSE LET d == DecodeRuneInString(s, i)
         IN  <<d.r>> \o RangeFrom(s, i + d.size)

Range(s) == RangeFrom(s, 1)

\* utf8.AppendRune / strings.Builder.WriteRune
EncodeRune(r) ==
    IF r < 0 \/ r > 1114111 \/ (r >= 55296 /\ r <= 57343)
    THEN <<239, 191, 189>>
    ELSE IF r < 128 THEN <<r>>
    ELSE IF r < 2048 THEN <<192 + (r \div 64), 128 + (r % 64)>>
    ELSE IF r < 65536
    THEN <<224 + (r \div 4096), 128 + ((r \div 64) % 64), 128 + (r % 64)>>
    ELSE <<240 + (r \div 262144), 128 + ((r \div 4096) % 64),
           128 + ((r \div 64) % 64), 128 + (r % 64)>>

RECURSIVE EncodeRunes(_)
EncodeRunes(rs) ==
    IF rs = <<>> THEN <<>> ELSE EncodeRune(Head(rs)) \o EncodeRunes(Tail(rs))

(***************************************************************************)
(* unicode: exact on Latin-1 (the properties table) and on the blocks the  *)
(* model's inputs can form (Cyrillic, Miscellaneous Symbols, Dingbats,     *)
(* U+FFFD, the emoji planes).                                              *)
(***************************************************************************)
MaxASCII == 127
MaxLatin1 == 255

\* unicode.IsUpper
IsUpper(r) ==
    IF r <= MaxLatin1
    THEN \/ (r >= 65 /\ r <= 90)
         \/ (r >= 192 /\ r <= 222 /\ r # 215)
    ELSE \/ (r >= 1024 /\ r <= 1071)

\* unicode.ToLower
ToLowerRune(r) ==
    IF r <= MaxLatin1
    THEN IF (r >= 65 /\ r <= 90) \/ (r >= 192 /\ r <= 222 /\ r # 215)
         THEN r + 32 ELSE r
    ELSE IF r >= 1024 /\ r <= 1039 THEN r + 80
    ELSE IF r >= 1040 /\ r <= 1071 THEN r + 32
    ELSE r

\* unicode.IsPrint
IsPrint(r) ==
    IF r <= MaxLatin1
    THEN \/ (r >= 32 /\ r <= 126)
         \/ (r >= 161 /\ r <= 255 /\ r # 173)
    ELSE \/ (r >= 1024 /\ r <= 1279)
         \/ (r >= 9728 /\ r <= 10175)
         \/ r = RuneError
         \/ (r >= 127744 /\ r <= 128591)

\* unicode.IsSpace
IsSpace(r) ==
    IF r <= MaxLatin1
    THEN r \in {9, 10, 11, 12, 13, 32, 133, 160}
    ELSE \/ r = 5760 \/ (r >= 8192 /\ r <= 8202)
         \/ r \in {8232, 8233, 8239, 8287, 12288}

(***************************************************************************)
(* strings                                                                 *)
(***************************************************************************)
HasPrefixAt(s, i, sub) ==
    /\ i + Len(sub) - 1 <= Len(s)
    /\ \A k \in 1..Len(sub) : s[i + k - 1] = sub[k]

\* strings.Index, 1-based; 0 when sub does not occur in s from byte i on
RECURSIVE IndexFrom(_, _, _)
IndexFrom(s, i, sub) ==
    IF i + Len(sub) - 1 > Len(s) THEN 0
    ELSE IF HasPrefixAt(s, i, sub) THEN i
    ELSE IndexFrom(s, i + 1, sub)

\* strings.Contains
Contains(s, sub) == IndexFrom(s, 1, sub) # 0

\* strings.ContainsRune
ContainsRune(s, r) ==
    LET rs == Range(s)
    IN  \E i \in 1..Len(rs) : rs[i] = r

\* strings.ReplaceAll(s, old, new) for a non-empty old: left to right,
\* non-overlapping
RECURSIVE ReplaceAllFrom(_, _, _, _)
ReplaceAllFrom(s, i, old, new) ==
    IF i > Len(s) THEN <<>>
    ELSE IF HasPrefixAt(s, i, old)
    THEN new \o ReplaceAllFrom(s, i + Len(old), old, new)
    ELSE <<s[i]>> \o ReplaceAllFrom(s, i + 1, old, new)

ReplaceAll(s, old, new) == ReplaceAllFrom(s, 1, old, new)

\* strings.TrimLeftFunc(s, unicode.IsSpace)
RECURSIVE TrimLeftSpace(_)
TrimLeftSpace(s) ==
    IF s = <<>> THEN s
    ELSE LET d == DecodeRuneInString(s, 1)
         IN  IF IsSpace(d.r) THEN TrimLeftSpace(SubSeq(s, d.size + 1, Len(s)))
             ELSE s

\* strings.TrimRightFunc(s, unicode.IsSpace)
RECURSIVE TrimRightSpace(_)
TrimRightSpace(s) ==
    IF s = <<>> THEN s
    ELSE LET d == DecodeLastRuneInString(s, Len(s))
         IN  IF IsSpace(d.r) THEN TrimRightSpace(SubSeq(s, 1, Len(s) - d.size))
             ELSE s

\* strings.TrimSpace
TrimSpace(s) == TrimRightSpace(TrimLeftSpace(s))

\* strings.Trim(s, cutset) for an ASCII cutset given as a set of bytes
RECURSIVE TrimLeftBytes(_, _)
TrimLeftBytes(s, cutset) ==
    IF s # <<>> /\ Head(s) \in cutset THEN TrimLeftBytes(Tail(s), cutset)
    ELSE s

RECURSIVE TrimRightBytes(_, _)
TrimRightBytes(s, cutset) ==
    IF s # <<>> /\ s[Len(s)] \in cutset
    THEN TrimRightBytes(SubSeq(s, 1, Len(s) - 1), cutset)
    ELSE s

Trim(s, cutset) == TrimRightBytes(TrimLeftBytes(s, cutset), cutset)

RECURSIVE MapRunes(_)
MapRunes(rs) ==
    IF rs = <<>> THEN <<>> ELSE <<ToLowerRune(Head(rs))>> \o MapRunes(Tail(rs))

\* strings.ToLower: ASCII strings byte by byte, others through strings.Map,
\* which re-encodes every rune (an invalid byte becomes U+FFFD)
ToLower(s) ==
    IF \A i \in 1..Len(s) : s[i] < 128
    THEN [i \in 1..Len(s) |-> IF s[i] >= 65 /\ s[i] <= 90 THEN s[i] + 32 ELSE s[i]]
    ELSE EncodeRunes(MapRunes(Range(s)))

(***************************************************************************)
(* pkg/analyzer/rules.go                                                   *)
(***************************************************************************)
sensitiveKeywords == <<
    <<112, 97, 115, 115, 119, 111, 114, 100>>,                  \* password
    <<112, 97, 115, 115, 119, 100>>,                            \* passwd
    <<112, 119, 100>>,                                          \* pwd
    <<116, 111, 107, 101, 110>>,                                \* token
    <<97, 99, 99, 101, 115, 115, 95, 116, 111, 107, 101, 110>>, \* access_token
    <<114, 101, 102, 114, 101, 115, 104, 95, 116, 111, 107, 101, 110>>,
                                                                \* refresh_token
    <<97, 112, 105, 95, 107, 101, 121>>,                        \* api_key
    <<97, 112, 105, 107, 101, 121>>,                            \* apikey
    <<97, 112, 105, 45, 107, 101, 121>>,                        \* api-key
    <<115, 101, 99, 114, 101, 116>>,                            \* secret
    <<115, 101, 99, 114, 101, 116, 95, 107, 101, 121>>,         \* secret_key
    <<99, 114, 101, 100, 101, 110, 116, 105, 97, 108>>,         \* credential
    <<99, 114, 101, 100, 101, 110, 116, 105, 97, 108, 115>>,    \* credentials
    <<112, 114, 105, 118, 97, 116, 101, 95, 107, 101, 121>>,    \* private_key
    <<112, 114, 105, 118, 97, 116, 101, 107, 101, 121>>,        \* privatekey
    <<115, 115, 110>>,                                          \* ssn
    <<115, 111, 99, 105, 97, 108, 95, 115, 101, 99, 117, 114, 105, 116, 121>>,
                                                                \* social_security
    <<99, 114, 101, 100, 105, 116, 95, 99, 97, 114, 100>>,      \* credit_card
    <<99, 114, 101, 100, 105, 116, 99, 97, 114, 100>>,          \* creditcard
    <<99, 118, 118>>,                                           \* cvv
    <<112, 105, 110>> >>                                        \* pin

\* r := rune(msg[0]); return unicode.IsUpper(r)   -- msg[0] is a byte
CheckLowercaseStart(m) ==
    IF m = <<>> THEN FALSE
    ELSE IsUpper(m[1])

CheckEnglishOnly(m) ==
    LET rs == Range(m)
    IN  \E i \in 1..Len(rs) : rs[i] > MaxASCII

\* !@#$%^&*~`<>{}|\
specialChars ==
    <<33, 64, 35, 36, 37, 94, 38, 42, 126, 96, 60, 62, 123, 125, 124, 92>>

isEmoji(r) ==
    \/ (r >= 128512 /\ r <= 128591)   \* 0x1F600-0x1F64F
    \/ (r >= 127744 /\ r <= 128511)   \* 0x1F300-0x1F5FF
    \/ (r >= 128640 /\ r <= 128767)   \* 0x1F680-0x1F6FF
    \/ (r >= 127456 /\ r <= 127487)   \* 0x1F1E0-0x1F1FF
    \/ (r >= 9728 /\ r <= 9983)       \* 0x2600-0x26FF
    \/ (r >= 9984 /\ r <= 10175)      \* 0x2700-0x27BF
    \/ (r >= 65024 /\ r <= 65039)     \* 0xFE00-0xFE0F
    \/ (r >= 129280 /\ r <= 129535)   \* 0x1F900-0x1F9FF
    \/ (r >= 129536 /\ r <= 129647)   \* 0x1FA00-0x1FA6F
    \/ (r >= 129648 /\ r <= 129791)   \* 0x1FA70-0x1FAFF
    \/ (r >= 8205 /\ r <= 8205)       \* 0x200D
    \/ (r >= 8986 /\ r <= 8987)       \* 0x231A-0x231B
    \/ (r >= 9193 /\ r <= 9203)       \* 0x23E9-0x23F3
    \/ (r >= 10548 /\ r <= 10549)     \* 0x2934-0x2935
    \/ (r >= 9642 /\ r <= 9643)       \* 0x25AA-0x25AB
    \/ (r >= 9654 /\ r <= 9664)       \* 0x25B6-0x25C0
    \/ (r >= 9723 /\ r <= 9726)       \* 0x25FB-0x25FE
    \/ (r >= 9748 /\ r <= 9749)       \* 0x2614-0x2615
    \/ (r >= 9800 /\ r <= 9811)       \* 0x2648-0x2653
    \/ (r >= 9855 /\ r <= 9855)       \* 0x267F
    \/ (r >= 9986 /\ r <= 10160)      \* 0x2702-0x27B0
    \/ (r >= 126980 /\ r <= 126980)   \* 0x1F004
    \/ (r >= 127183 /\ r <= 127183)   \* 0x1F0CF

CheckSpecialCharsOrEmoji(m) ==
    \/ LET rs == Range(m)
       IN  \E i \in 1..Len(rs) :
              isEmoji(rs[i]) \/ ContainsRune(specialChars, rs[i])
    \/ Contains(m, <<33, 33>>)        \* "!!"
    \/ Contains(m, <<63, 63>>)        \* "??"
    \/ Contains(m, <<46, 46, 46>>)    \* "..."

\* CheckSensitiveData without the strings.ToLower of the message
CheckSensitiveData_CaseSensitive(m) ==
    \E i \in 1..Len(sensitiveKeywords) : Contains(m, sensitiveKeywords[i])

CheckSensitiveData(m) ==
    LET lower == ToLower(m)
    IN  \E i \in 1..Len(sensitiveKeywords) : Contains(lower, sensitiveKeywords[i])

CheckSensitiveDataWithCustomKeywords(m, customKeywords) ==
    IF CheckSensitiveData(m) THEN TRUE
    ELSE LET lower == ToLower(m)
         IN  \E i \in 1..Len(customKeywords) :
                Contains(lower, ToLower(customKeywords[i]))

(***************************************************************************)
(* pkg/analyzer/analyzer.go: the syntax tree the host hands over.          *)
(* A call is [Fun, Args]; Fun is a selector X.Sel or something else; an    *)
(* argument is a basic literal (with its lexeme and position) or any other *)
(* expression.                                                             *)
(***************************************************************************)
NoPos == 0

defaultConfig ==
    [DisableLowercaseCheck   |-> FALSE,
     DisableEnglishCheck     |-> FALSE,
     DisableSpecialCharCheck |-> FALSE,
     DisableSensitiveCheck   |-> FALSE,
     CustomSensitiveKeywords |-> <<>>]

slogFunctions == {"Info", "Error", "Warn", "Debug", "Log"}

zapMethods ==
    {"Info", "Error", "Warn", "Debug", "Fatal", "Panic", "DPanic",
     "Infof", "Errorf", "Warnf", "Debugf", "Fatalf", "Panicf", "DPanicf",
     "Infow", "Errorw", "Warnw", "Debugw", "Fatalw", "Panicw", "DPanicw"}

logCases ==
    {"Info", "Error", "Warn", "Debug", "Fatal", "Panic",
     "Infof", "Errorf", "Warnf", "Debugf", "Fatalf", "Panicf"}

noMatch == [msg |-> <<>>, pos |-> NoPos]

\* lit, ok := arg.(*ast.BasicLit); ok && lit.Kind == token.STRING
isStringLit(arg) == arg.node = "BasicLit" /\ arg.Kind = "STRING"

\* the cutset "`\"" of strings.Trim
quoteCutset == {96, 34}

extractStringArg(c, funcName) ==
    IF funcName = "Log" /\ Len(c.Args) >= 3
    THEN IF isStringLit(c.Args[3])
         THEN [msg |-> Trim(c.Args[3].Value, quoteCutset), pos |-> c.Args[3].Pos]
         ELSE noMatch
    ELSE IF Len(c.Args) >= 1 /\ isStringLit(c.Args[1])
    THEN [msg |-> Trim(c.Args[1].Value, quoteCutset), pos |-> c.Args[1].Pos]
    ELSE noMatch

extractLogMessage(c) ==
    IF Len(c.Args) = 0 THEN noMatch
    ELSE IF c.Fun.node # "SelectorExpr" THEN noMatch
    ELSE LET funcName == c.Fun.Sel
             X        == c.Fun.X
         IN  IF X.node = "Ident" /\ X.Name = "slog" /\ funcName \in slogFunctions
             THEN extractStringArg(c, funcName)
             ELSE IF X.node = "Ident" /\ funcName \in zapMethods
             THEN extractStringArg(c, funcName)
             ELSE IF X.node = "CallExpr" /\ funcName \in zapMethods
             THEN extractStringArg(c, funcName)
             ELSE IF X.node = "Ident" /\ X.Name = "log" /\ funcName \in logCases
             THEN extractStringArg(c, funcName)
             ELSE noMatch

(***************************************************************************)
(* Diagnostics.  pass.Report hands the diagnostic to the sink as built;    *)
(* pass.Reportf builds Diagnostic{Pos: pos, Message: msg}, so Category and *)
(* SuggestedFixes keep their zero values.                                  *)
(***************************************************************************)
categoryName == "logchecklint"

msgLowercase == "log message should start with a lowercase letter"
msgEnglish == "log message should be in English only"
msgSpecial == "log message should not contain special characters or emoji"
msgSensitive == "log message may contain sensitive data"

Reportf(p, text) ==
    [Pos |-> p, Message |-> text, Category |-> "", SuggestedFixes |-> <<>>]

quoted(s) == <<34>> \o s \o <<34>>

\* filter loop of cleanSpecialChars over the runes of s
RECURSIVE cleanFilter(_)
cleanFilter(rs) ==
    IF rs = <<>> THEN <<>>
    ELSE LET r == Head(rs)
         IN  IF isEmoji(r) THEN cleanFilter(Tail(rs))
             ELSE IF ContainsRune(specialChars, r) THEN cleanFilter(Tail(rs))
             ELSE IF ~IsPrint(r) /\ r # 32 THEN cleanFilter(Tail(rs))
             ELSE EncodeRune(r) \o cleanFilter(Tail(rs))

\* for strings.Contains(result, "...") { result = ReplaceAll(result, "...", ".") }
RECURSIVE collapseDots(_)
collapseDots(result) ==
    IF Contains(result, <<46, 46, 46>>)
    THEN collapseDots(ReplaceAll(result, <<46, 46, 46>>, <<46>>))
    ELSE result

\* cleanSpecialChars trimming the whitespace before it filters
cleanSpecialChars_TrimFirst(s) == collapseDots(cleanFilter(Range(TrimSpace(s))))

cleanSpecialChars(s) == TrimSpace(collapseDots(cleanFilter(Range(s))))

\* lower := strings.ToLower(string(msg[0])) + msg[1:]
lowerFirst(m) == ToLower(EncodeRune(m[1])) \o Tail(m)

fixDiagnostic(p, text, fixText, m, newText) ==
    [Pos |-> p, Message |-> text, Category |-> categoryName,
     SuggestedFixes |->
        << [Message   |-> fixText,
            TextEdits |-> << [Pos     |-> p,
                              End     |-> p + (Len(m) + 2),
                              NewText |-> quoted(newText)] >>] >>]

checkAndReport(m, p) ==
    (IF CheckLowercaseStart(m)
     THEN << fixDiagnostic(p, msgLowercase, "convert first letter to lowercase",
                           m, lowerFirst(m)) >>
     ELSE <<>>)
    \o (IF CheckEnglishOnly(m) THEN << Reportf(p, msgEnglish) >> ELSE <<>>)
    \o (IF CheckSpecialCharsOrEmoji(m)
        THEN << fixDiagnostic(p, msgSpecial, "remove special characters and emoji",
                              m, cleanSpecialChars(m)) >>
        ELSE <<>>)
    \o (IF CheckSensitiveData(m) THEN << Reportf(p, msgSensitive) >> ELSE <<>>)

\* checkAndReportWithConfig never consulting the custom keywords
checkAndReportWithConfig_IgnoreCustom(m, p, c) ==
    (IF ~c.DisableLowercaseCheck /\ CheckLowercaseStart(m)
     THEN << Reportf(p, msgLowercase) >> ELSE <<>>)
    \o (IF ~c.DisableEnglishCheck /\ CheckEnglishOnly(m)
        THEN << Reportf(p, msgEnglish) >> ELSE <<>>)
    \o (IF ~c.DisableSpecialCharCheck /\ CheckSpecialCharsOrEmoji(m)
        THEN << Reportf(p, msgSpecial) >> ELSE <<>>)
    \o (IF ~c.DisableSensitiveCheck /\ CheckSensitiveData(m)
        THEN << Reportf(p, msgSensitive) >> ELSE <<>>)

checkAndReportWithConfig(m, p, c) ==
    (IF ~c.DisableLowercaseCheck /\ CheckLowercaseStart(m)
     THEN << Reportf(p, msgLowercase) >> ELSE <<>>)
    \o (IF ~c.DisableEnglishCheck /\ CheckEnglishOnly(m)
        THEN << Reportf(p, msgEnglish) >> ELSE <<>>)
    \o (IF ~c.DisableSpecialCharCheck /\ CheckSpecialCharsOrEmoji(m)
        THEN << Reportf(p, msgSpecial) >> ELSE <<>>)
    \o (IF ~c.DisableSensitiveCheck
        THEN IF Len(c.CustomSensitiveKeywords) > 0
             THEN IF CheckSensitiveDataWithCustomKeywords(m, c.CustomSensitiveKeywords)
                  THEN << Reportf(p, msgSensitive) >> ELSE <<>>
             ELSE IF CheckSensitiveData(m)
                  THEN << Reportf(p, msgSensitive) >> ELSE <<>>
        ELSE <<>>)

(***************************************************************************)
(* Inputs: message texts.                                                  *)
(***************************************************************************)
\* bytes messages are built from: A a . ! ? space tab and the UTF-8 bytes
\* 0xD1 0xE2 0x98 (D1 98 is U+0458, a lowercase Cyrillic letter; E2 98 98
\* is U+2618, in the emoji range 0x2600-0x26FF; other orders are invalid)
Alphabet == {65, 97, 46, 33, 63, 32, 9, 209, 226, 152}

ByteStrings(n) == UNION {[1..k -> Alphabet] : k \in 0..n}

\* words messages are concatenated from
Vocabulary ==
    { <<117, 115, 101, 114, 32>>,           \* "user "
      <<97, 117, 116, 104>>,                \* "auth"
      <<80, 65, 83, 83, 87, 79, 82, 68>>,   \* "PASSWORD"
      <<112, 105, 110>>,                    \* "pin"
      <<80, 119, 100>>,                     \* "Pwd"
      <<97, 112, 105>>,                     \* "api"
      <<95, 107, 101, 121>>,                \* "_key"
      <<45, 107, 101, 121>>,                \* "-key"
      <<84, 111, 107, 101, 110>>,           \* "Token"
      <<32, 111, 107>>,                     \* " ok"
      <<115, 115, 110>>,                    \* "ssn"
      <<208, 183, 208, 176>> }              \* "за"

RECURSIVE WordConcats(_)
WordConcats(n) ==
    IF n = 0 THEN {<<>>}
    ELSE LET shorter == WordConcats(n - 1)
         IN  shorter \cup {a \o w : a \in shorter, w \in Vocabulary}

Messages == ByteStrings(MaxLen) \cup WordConcats(MaxWords)

\* Starting server
TxtStarting == <<83, 116, 97, 114, 116, 105, 110, 103, 32, 115, 101, 114, 118, 101, 114>>
\* starting server
TxtStartingLower == <<115, 116, 97, 114, 116, 105, 110, 103, 32, 115, 101, 114, 118, 101, 114>>
\* something went wrong...
TxtWrong == <<115, 111, 109, 101, 116, 104, 105, 110, 103, 32, 119, 101, 110, 116, 32, 119, 114, 111, 110, 103, 46, 46, 46>>
\* user password: 12345
TxtPassword == <<117, 115, 101, 114, 32, 112, 97, 115, 115, 119, 111, 114, 100, 58, 32, 49, 50, 51, 52, 53>>
\* запуск
TxtRussian == <<208, 183, 208, 176, 208, 191, 209, 131, 209, 129, 208, 186>>
\* Failed!
TxtFailed == <<70, 97, 105, 108, 101, 100, 33>>
\* `a`
TxtBackticks == <<96, 97, 96>>
\* Pin??
TxtPin == <<80, 105, 110, 63, 63>>
\* Key (U+2618)!
TxtKey == <<75, 101, 121, 32, 226, 152, 152, 33>>
\* a\"
TxtEscQuote == <<97, 92, 34>>
\* "q"
TxtQuoted == <<34, 113, 34>>
\* user authenticated successfully
TxtAuth == <<117, 115, 101, 114, 32, 97, 117, 116, 104, 101, 110, 116, 105, 99, 97, 116, 101, 100, 32, 115, 117, 99, 99, 101, 115, 115, 102, 117, 108, 108, 121>>
\* KEY
TxtCustomKeyword == <<75, 69, 89>>

rawQuoted(s) == <<96>> \o s \o <<96>>

\* lexemes of string literals: interpreted "..." and raw `...`
Lexemes ==
    {quoted(t) : t \in {<<>>, TxtStarting, TxtStartingLower, TxtWrong,
                        TxtPassword, TxtRussian, TxtFailed, TxtBackticks,
                        TxtPin, TxtKey, TxtEscQuote, TxtAuth}}
    \cup {rawQuoted(t) : t \in {TxtStartingLower, TxtQuoted, TxtFailed}}

(***************************************************************************)
(* Inputs: call expressions.                                               *)
(***************************************************************************)
strLit(lexeme) == [node |-> "BasicLit", Kind |-> "STRING", Value |-> lexeme, Pos |-> NoPos]
\* 42
intLit == [node |-> "BasicLit", Kind |-> "INT", Value |-> <<52, 50>>, Pos |-> NoPos]
\* msgVar
identArg == [node |-> "Ident", Kind |-> "", Value |-> <<>>, Pos |-> NoPos]

\* the argument at index i starts at offset 40 * i of the file
place(args) == [i \in 1..Len(args) |-> [args[i] EXCEPT !.Pos = 40 * i]]

selector(x, name) == [node |-> "SelectorExpr", X |-> x, Sel |-> name]

Receivers ==
    {[node |-> "Ident", Name |-> n] : n \in {"slog", "log", "logger"}}
    \cup {[node |-> "CallExpr", Name |-> ""], [node |-> "SelectorExpr", Name |-> ""]}

Names == zapMethods \cup {"Log", "Print"}

\* callees: X.Sel for every receiver shape, and a plain function name
Callees ==
    {selector(x, n) : x \in Receivers, n \in Names}
    \cup {[node |-> "Ident", X |-> [node |-> "None", Name |-> ""], Sel |-> n] : n \in Names}

ArgLists(n) == UNION {[1..k -> {strLit(quoted(TxtFailed)), intLit, identArg}] : k \in 0..n}

Calls ==
    \* every callee, message first or third
    {[Fun |-> f, Args |-> place(a)] :
        f \in Callees,
        a \in {<<strLit(quoted(TxtStarting))>>,
               <<identArg, intLit, strLit(quoted(TxtFailed))>>}}
    \* every argument list
    \cup {[Fun |-> selector([node |-> "Ident", Name |-> x], n), Args |-> place(a)] :
            x \in {"slog", "logger"}, n \in {"Info", "Log"}, a \in ArgLists(MaxArgs)}
    \* every literal
    \cup {[Fun |-> selector([node |-> "Ident", Name |-> "slog"], "Info"),
           Args |-> place(<<strLit(l)>>)] : l \in Lexemes}
    \cup {[Fun |-> selector([node |-> "Ident", Name |-> "slog"], "Log"),
           Args |-> place(<<identArg, identArg, strLit(l)>>)] : l \in Lexemes}

noCall == [Fun |-> [node |-> "None", X |-> [node |-> "None", Name |-> ""], Sel |-> ""],
           Args |-> <<>>]

Configs ==
    [DisableLowercaseCheck   : BOOLEAN,
     DisableEnglishCheck     : BOOLEAN,
     DisableSpecialCharCheck : BOOLEAN,
     DisableSensitiveCheck   : BOOLEAN,
     CustomSensitiveKeywords : {<<>>, <<TxtCustomKeyword>>}]

(***************************************************************************)
(* The analysis pass over one call expression: the host's walker yields    *)
(* the node `call` to the callback of the analyzer that is installed       *)
(* (run for the default Analyzer, RunWithConfig(cfg) for the plugin); the  *)
(* callback extracts the message and reports.  The callbacks keep no state *)
(* between nodes, so one node is one pass.  diags is what the callback     *)
(* handed to the sink.                                                     *)
(***************************************************************************)
Init ==
    /\ cfg \in Configs
    /\ entry = "none"
    /\ call \in Calls
    /\ msg = <<>>
    /\ pos = NoPos
    /\ diags = <<>>
    /\ fn = "none"
    /\ res = FALSE

\* the callback of run
run ==
    LET e == extractLogMessage(call)
    IN  /\ entry = "none"
        /\ entry' = "run"
        /\ msg' = e.msg
        /\ pos' = e.pos
        /\ diags' = IF e.msg = <<>> THEN <<>> ELSE checkAndReport(e.msg, e.pos)
        /\ UNCHANGED <<cfg, call, fn, res>>

\* the callback of RunWithConfig(cfg)
RunWithConfig ==
    LET e == extractLogMessage(call)
    IN  /\ entry = "none"
        /\ entry' = "RunWithConfig"
        /\ msg' = e.msg
        /\ pos' = e.pos
        /\ diags' = IF e.msg = <<>> THEN <<>>
                    ELSE checkAndReportWithConfig(e.msg, e.pos, cfg)
        /\ UNCHANGED <<cfg, call, fn, res>>

Next ==
    \/ run
    \/ RunWithConfig

Spec == Init /\ [][Next]_vars

(***************************************************************************)
(* The rule predicates and the repair as pure functions of a message.      *)
(***************************************************************************)
InitRules ==
    /\ cfg = defaultConfig
    /\ entry = "none"
    /\ call = noCall
    /\ msg \in Messages
    /\ pos = NoPos
    /\ diags = <<>>
    /\ fn = "none"
    /\ res = FALSE

ApplyCheckLowercaseStart ==
    /\ fn' = "CheckLowercaseStart"
    /\ res' = CheckLowercaseStart(msg)
    /\ UNCHANGED <<cfg, entry, call, msg, pos, diags>>

ApplyCheckEnglishOnly ==
    /\ fn' = "CheckEnglishOnly"
    /\ res' = CheckEnglishOnly(msg)
    /\ UNCHANGED <<cfg, entry, call, msg, pos, diags>>

ApplyCheckSpecialCharsOrEmoji ==
    /\ fn' = "CheckSpecialCharsOrEmoji"
    /\ res' = CheckSpecialCharsOrEmoji(msg)
    /\ UNCHANGED <<cfg, entry, call, msg, pos, diags>>

ApplyCheckSensitiveData ==
    /\ fn' = "CheckSensitiveData"
    /\ res' = CheckSensitiveData(msg)
    /\ UNCHANGED <<cfg, entry, call, msg, pos, diags>>

ApplyCleanSpecialChars ==
    /\ fn' = "cleanSpecialChars"
    /\ res' = cleanSpecialChars(msg)
    /\ UNCHANGED <<cfg, entry, call, msg, pos, diags>>

NextRules ==
    \/ ApplyCheckLowercaseStart
    \/ ApplyCheckEnglishOnly
    \/ ApplyCheckSpecialCharsOrEmoji
    \/ ApplyCheckSensitiveData
    \/ ApplyCleanSpecialChars

SpecRules == InitRules /\ [][NextRules]_vars

(***************************************************************************)
(* Properties.                                                             *)
(***************************************************************************)
\* sub occurs in s
IsSubstring(sub, s) ==
    \E i \in 0..(Len(s) - Len(sub)) : SubSeq(s, i + 1, i + Len(sub)) = sub

\* the documented built-in keyword list, with auth and authorization
InclusiveKeywords ==
    { <<112, 97, 115, 115, 119, 111, 114, 100>>,
      <<112, 97, 115, 115, 119, 100>>,
      <<112, 119, 100>>,
      <<116, 111, 107, 101, 110>>,
      <<97, 99, 99, 101, 115, 115, 95, 116, 111, 107, 101, 110>>,
      <<114, 101, 102, 114, 101, 115, 104, 95, 116, 111, 107, 101, 110>>,
      <<97, 112, 105, 95, 107, 101, 121>>,
      <<97, 112, 105, 107, 101, 121>>,
      <<97, 112, 105, 45, 107, 101, 121>>,
      <<115, 101, 99, 114, 101, 116>>,
      <<115, 101, 99, 114, 101, 116, 95, 107, 101, 121>>,
      <<99, 114, 101, 100, 101, 110, 116, 105, 97, 108>>,
      <<99, 114, 101, 100, 101, 110, 116, 105, 97, 108, 115>>,
      <<112, 114, 105, 118, 97, 116, 101, 95, 107, 101, 121>>,
      <<112, 114, 105, 118, 97, 116, 101, 107, 101, 121>>,
      <<97, 117, 116, 104>>,
      <<97, 117, 116, 104, 111, 114, 105, 122, 97, 116, 105, 111, 110>>,
      <<115, 115, 110>>,
      <<115, 111, 99, 105, 97, 108, 95, 115, 101, 99, 117, 114, 105, 116, 121>>,
      <<99, 114, 101, 100, 105, 116, 95, 99, 97, 114, 100>>,
      <<99, 114, 101, 100, 105, 116, 99, 97, 114, 100>>,
      <<99, 118, 118>>,
      <<112, 105, 110>> }

\* the same list without auth and authorization
ExclusiveKeywords ==
    InclusiveKeywords \ { <<97, 117, 116, 104>>,
                          <<97, 117, 116, 104, 111, 114, 105, 122, 97, 116, 105, 111, 110>> }

\* the documented recogniser table
LeveledNames ==
    {"Info", "Error", "Warn", "Debug", "Fatal", "Panic", "DPanic",
     "Infof", "Errorf", "Warnf", "Debugf", "Fatalf", "Panicf", "DPanicf",
     "Infow", "Errorw", "Warnw", "Debugw", "Fatalw", "Panicw", "DPanicw"}

TableMatch(c) ==
    /\ c.Fun.node = "SelectorExpr"
    /\ \/ /\ c.Fun.X.node = "Ident" /\ c.Fun.X.Name = "slog"
          /\ c.Fun.Sel \in {"Info", "Error", "Warn", "Debug", "Log"}
       \/ /\ c.Fun.X.node = "Ident" /\ c.Fun.X.Name = "log"
          /\ c.Fun.Sel \in {"Info", "Error", "Warn", "Debug", "Fatal", "Panic",
                            "Infof", "Errorf", "Warnf", "Debugf", "Fatalf", "Panicf"}
       \/ /\ c.Fun.X.node = "Ident" /\ c.Fun.X.Name \notin {"slog", "log"}
          /\ c.Fun.Sel \in LeveledNames
       \/ /\ c.Fun.X.node = "CallExpr"
          /\ c.Fun.Sel \in LeveledNames

\* index (from 1) of the designated message argument
Designated(c) == IF c.Fun.Sel = "Log" THEN 3 ELSE 1

HasDesignatedLiteral(c) ==
    /\ Len(c.Args) >= Designated(c)
    /\ c.Args[Designated(c)].node = "BasicLit"
    /\ c.Args[Designated(c)].Kind = "STRING"

\* C1: CheckLowercaseStart reports a violation iff the message is non-empty
\* and its first byte is an ASCII uppercase letter 'A'..'Z'.
C1_AsciiUppercaseOnly ==
    fn = "CheckLowercaseStart" =>
        (res <=> (msg # <<>> /\ msg[1] >= 65 /\ msg[1] <= 90))

\* C2: one application of the SpecialOrEmoji repair yields a message the
\* SpecialOrEmoji predicate accepts.
C2_RepairConverges ==
    fn = "cleanSpecialChars" => ~CheckSpecialCharsOrEmoji(res)

\* C3 (as stated): CheckSensitiveData reports a violation iff the lowercased
\* message contains a keyword of the inclusive list (with auth and
\* authorization).
C3_InclusiveList ==
    fn = "CheckSensitiveData" =>
        (res <=> \E k \in InclusiveKeywords : IsSubstring(k, ToLower(msg)))

\* C3 (amended): CheckSensitiveData reports a violation iff the lowercased
\* message contains a keyword of the list without auth and authorization.
C3_ExclusiveList ==
    fn = "CheckSensitiveData" =>
        (res <=> \E k \in ExclusiveKeywords : IsSubstring(k, ToLower(msg)))

\* a message that contains "auth" and no listed keyword is not reported
C3_Witness ==
    /\ fn = "CheckSensitiveData"
    /\ res = FALSE
    /\ IsSubstring(<<97, 117, 116, 104>>, ToLower(msg))

\* C4: the configured orchestrator emits exactly the list [LowercaseStart,
\* EnglishOnly, SpecialOrEmoji, SensitiveData] restricted to the rules that
\* are not disabled and that the message violates, one diagnostic per rule,
\* in that order, each at the literal's position.
C4_FixedOrderMasked ==
    (entry = "RunWithConfig" /\ msg # <<>>) =>
        LET custom == {cfg.CustomSensitiveKeywords[i] :
                          i \in 1..Len(cfg.CustomSensitiveKeywords)}
            builtin == {sensitiveKeywords[i] : i \in 1..Len(sensitiveKeywords)}
            due(t) ==
                \/ /\ t = "log message should start with a lowercase letter"
                   /\ ~cfg.DisableLowercaseCheck
                   /\ CheckLowercaseStart(msg)
                \/ /\ t = "log message should be in English only"
                   /\ ~cfg.DisableEnglishCheck
                   /\ CheckEnglishOnly(msg)
                \/ /\ t = "log message should not contain special characters or emoji"
                   /\ ~cfg.DisableSpecialCharCheck
                   /\ CheckSpecialCharsOrEmoji(msg)
                \/ /\ t = "log message may contain sensitive data"
                   /\ ~cfg.DisableSensitiveCheck
                   /\ \E k \in builtin \cup custom :
                         IsSubstring(ToLower(k), ToLower(msg))
        IN  /\ [i \in 1..Len(diags) |-> diags[i].Message]
                = SelectSeq(<<"log message should start with a lowercase letter",
                              "log message should be in English only",
                              "log message should not contain special characters or emoji",
                              "log message may contain sensitive data">>, due)
            /\ \A i \in 1..Len(diags) : diags[i].Pos = pos

\* a message that violates all four rules, SensitiveData only through a
\* custom keyword, checked with EnglishOnly disabled: three diagnostics
C4_Witness ==
    /\ entry = "RunWithConfig"
    /\ cfg.DisableEnglishCheck
    /\ ~cfg.DisableLowercaseCheck
    /\ ~cfg.DisableSpecialCharCheck
    /\ ~cfg.DisableSensitiveCheck
    /\ CheckLowercaseStart(msg)
    /\ CheckEnglishOnly(msg)
    /\ CheckSpecialCharsOrEmoji(msg)
    /\ ~CheckSensitiveData(msg)
    /\ Len(diags) = 3

\* C5: for a call the recogniser table matches, the extractor yields a
\* (text, position) pair iff the designated argument (the third for Log, the
\* first otherwise) exists and is a string literal, and the pair is that
\* argument's.
C5_DesignatedArgumentOnly ==
    (entry # "none" /\ TableMatch(call)) =>
        IF HasDesignatedLiteral(call)
        THEN pos = call.Args[Designated(call)].Pos
        ELSE pos = NoPos /\ msg = <<>>

\* C6: a call whose designated argument is a string literal is matched iff
\* its callee shape and name are in the recogniser table.
C6_ClosedNameSets ==
    (entry # "none" /\ HasDesignatedLiteral(call)) =>
        (pos # NoPos <=> TableMatch(call))

\* C7: every diagnostic emitted, on both entry points, carries the category
\* "logchecklint".
C7_CategoryOnEveryDiagnostic ==
    \A i \in 1..Len(diags) : diags[i].Category = "logchecklint"

\* C8: every LowercaseStart and SpecialOrEmoji diagnostic, with or without a
\* configuration, carries exactly one suggested edit [pos, pos+len(msg)+2)
\* with the quoted repaired message; every EnglishOnly and SensitiveData
\* diagnostic carries none.
C8_SuggestedEdits ==
    \A i \in 1..Len(diags) :
        LET d == diags[i]
            firstLowered ==
                <<IF msg[1] >= 65 /\ msg[1] <= 90 THEN msg[1] + 32 ELSE msg[1]>>
                \o Tail(msg)
            edit(new) == [Pos |-> pos, End |-> pos + Len(msg) + 2,
                          NewText |-> <<34>> \o new \o <<34>>]
        IN  IF d.Message = "log message should start with a lowercase letter"
            THEN /\ Len(d.SuggestedFixes) = 1
                 /\ d.SuggestedFixes[1].TextEdits = <<edit(firstLowered)>>
            ELSE IF d.Message = "log message should not contain special characters or emoji"
            THEN /\ Len(d.SuggestedFixes) = 1
                 /\ d.SuggestedFixes[1].TextEdits = <<edit(cleanSpecialChars(msg))>>
            ELSE d.SuggestedFixes = <<>>

\* C9: the SpecialOrEmoji repair is idempotent.
C9_RepairIdempotent ==
    fn = "cleanSpecialChars" => cleanSpecialChars(res) = res

\* the repair dropped a character, collapsed dots or trimmed, and left text
C9_Witness ==
    /\ fn = "cleanSpecialChars"
    /\ res # msg
    /\ res # <<>>
    /\ \E i \in 1..Len(msg) : msg[i] = 46

\* C10: the extracted message is the literal's lexeme without its first and
\* last character, so the fix span [pos, pos+len(msg)+2) covers the literal.
C10_SpanCoversLiteral ==
    (entry # "none" /\ pos # NoPos) =>
        \A i \in 1..Len(call.Args) :
            call.Args[i].Pos = pos =>
                /\ msg = SubSeq(call.Args[i].Value, 2, Len(call.Args[i].Value) - 1)
                /\ Len(msg) + 2 = Len(call.Args[i].Value)

====
